---- MODULE Spec2Model ----
(***************************************************************************)
(* Flattening of a BVH into a FlatBVH and the stackless traversal of the   *)
(* flat array (src/src/flat_bvh.rs).                                       *)
(*                                                                         *)
(* Geometry.  A traverse call tests one ray against boxes and uses nothing *)
(* of a box but the answer of ray.intersects_aabb.  A box is therefore     *)
(* represented by that answer for the ray of the call: TRUE when the ray   *)
(* intersects it.  AABB::empty() is never intersected.                     *)
(*                                                                         *)
(* Indices.  Rust positions are 0-based; sequences here are 1-based, and   *)
(* At(s, i) reads the element at Rust position i.                          *)
(*                                                                         *)
(* Width.  The stored indices are u32.  The cast `x as u32` is x modulo    *)
(* 2^w, with the width w a variable: Spec fixes it to IndexBits, SpecW     *)
(* draws it from a few narrow widths so that truncation is within reach of *)
(* small trees.  The model checker's integers are 32-bit signed, so        *)
(* IndexBits stands for the code's 32 with the largest width whose         *)
(* sentinel 2^w - 1 it can represent.                                      *)
(***************************************************************************)
EXTENDS Integers, Sequences, FiniteSets, TLC

VARIABLES
    nodes,       \* BVH.nodes: the arena of BVHNode, root at position 0
    w,           \* width in bits of the stored u32 indices
    flat,        \* the FlatBVH (Vec<FlatNode>), empty until flatten has run
    shapes,      \* traverse's `shapes` slice: for each shape, does the ray hit its aabb()
    index,       \* traverse's cursor `index`
    hit_shapes,  \* traverse's `hit_shapes` (positions of the referenced shapes)
    visited,     \* history: the values of `index` at which the loop body has run
    result,      \* what traverse returned, NoResult while it has returned nothing
    pc           \* "build", "flat", "loop", "done", "panic"

vars == <<nodes, w, flat, shapes, index, hit_shapes, visited, result, pc>>

\* ---------------------------------------------------------------- bounds
MaxLeaves == 3
MaxShapes == 3
NarrowBits == 2
IndexBits == 30

\* traverse's return value: nothing yet, or the returned Vec
NoResult == [returned |-> FALSE, value |-> << >>]

Returned(v) == [returned |-> TRUE, value |-> v]

At(s, i) == s[i + 1]

\* ------------------------------------------------------- external geometry
AABBs == BOOLEAN

AABB_empty == FALSE

join(a, b) == a \/ b

intersects_aabb(aabb) == aabb

\* ------------------------------------------------------------- u32 values
Pow2(n) == 2 ^ n

u32_max_value(bits) == Pow2(bits) - 1

as_u32_narrow(x, bits) == x % Pow2(bits - 1)

as_u32(x, bits) == x % Pow2(bits)

\* ------------------------------------------------------------ source tree
Leaf(s) == [kind |-> "Leaf", shape_index |-> s]

Node(la, li, ra, ri) ==
    [kind |-> "Node", child_l_aabb |-> la, child_l_index |-> li,
     child_r_aabb |-> ra, child_r_index |-> ri]

IsLeaf(n) == n.kind = "Leaf"

RECURSIVE count_nodes_left_only(_, _)
count_nodes_left_only(ns, i) ==
    IF IsLeaf(At(ns, i)) THEN 1
    ELSE 1 + count_nodes_left_only(ns, At(ns, i).child_l_index)

RECURSIVE count_nodes(_, _)
count_nodes(ns, i) ==
    IF IsLeaf(At(ns, i)) THEN 1
    ELSE 1 + count_nodes(ns, At(ns, i).child_l_index)
           + count_nodes(ns, At(ns, i).child_r_index)

\* ---------------------------------------------------------------- flatten
FlatNode_swapped(aabb, entry, exit, shape) ==
    [aabb |-> aabb, entry_index |-> exit, exit_index |-> entry, shape_index |-> shape]

FlatNode(aabb, entry, exit, shape) ==
    [aabb |-> aabb, entry_index |-> entry, exit_index |-> exit, shape_index |-> shape]

RECURSIVE flatten_custom_r_off_by_one(_, _, _, _, _, _)
flatten_custom_r_off_by_one(ns, i, this_aabb, flattened_node_index, exit_index, bits) ==
    LET n == At(ns, i) IN
    IF IsLeaf(n)
    THEN << FlatNode(AABB_empty, u32_max_value(bits), as_u32(exit_index, bits),
                     as_u32(n.shape_index, bits)) >>
    ELSE LET left_subtree_num_nodes == count_nodes(ns, n.child_l_index)
             l_index == 1 + flattened_node_index
             r_index == flattened_node_index + left_subtree_num_nodes
         IN  << FlatNode(this_aabb, as_u32(l_index, bits), as_u32(exit_index, bits),
                         u32_max_value(bits)) >>
             \o flatten_custom_r_off_by_one(ns, n.child_l_index, n.child_l_aabb,
                                            l_index, r_index, bits)
             \o flatten_custom_r_off_by_one(ns, n.child_r_index, n.child_r_aabb,
                                            r_index, exit_index, bits)

RECURSIVE flatten_custom_right_first(_, _, _, _, _, _)
flatten_custom_right_first(ns, i, this_aabb, flattened_node_index, exit_index, bits) ==
    LET n == At(ns, i) IN
    IF IsLeaf(n)
    THEN << FlatNode(AABB_empty, u32_max_value(bits), as_u32(exit_index, bits),
                     as_u32(n.shape_index, bits)) >>
    ELSE LET right_subtree_num_nodes == count_nodes(ns, n.child_r_index)
             l_index == 1 + flattened_node_index
             r_index == 1 + flattened_node_index + right_subtree_num_nodes
         IN  << FlatNode(this_aabb, as_u32(l_index, bits), as_u32(exit_index, bits),
                         u32_max_value(bits)) >>
             \o flatten_custom_right_first(ns, n.child_r_index, n.child_r_aabb,
                                           l_index, r_index, bits)
             \o flatten_custom_right_first(ns, n.child_l_index, n.child_l_aabb,
                                           r_index, exit_index, bits)

RECURSIVE flatten_custom(_, _, _, _, _, _)
flatten_custom(ns, i, this_aabb, flattened_node_index, exit_index, bits) ==
    LET n == At(ns, i) IN
    IF IsLeaf(n)
    THEN << FlatNode(AABB_empty, u32_max_value(bits), as_u32(exit_index, bits),
                     as_u32(n.shape_index, bits)) >>
    ELSE LET left_subtree_num_nodes == count_nodes(ns, n.child_l_index)
             l_index == 1 + flattened_node_index
             r_index == 1 + flattened_node_index + left_subtree_num_nodes
         IN  << FlatNode(this_aabb, as_u32(l_index, bits), as_u32(exit_index, bits),
                         u32_max_value(bits)) >>
             \o flatten_custom(ns, n.child_l_index, n.child_l_aabb,
                               l_index, r_index, bits)
             \o flatten_custom(ns, n.child_r_index, n.child_r_aabb,
                               r_index, exit_index, bits)

root_aabb(ns) ==
    IF IsLeaf(At(ns, 0)) THEN AABB_empty
    ELSE join(At(ns, 0).child_l_aabb, At(ns, 0).child_r_aabb)

flatten_exit_last(ns, bits) == flatten_custom(ns, 0, root_aabb(ns), 0, Len(ns) - 1, bits)

flatten(ns, bits) == flatten_custom(ns, 0, root_aabb(ns), 0, Len(ns), bits)

\* ------------------------------------------------------------------ state
LeafPositions(ns) == { i \in 0 .. Len(ns) - 1 : IsLeaf(At(ns, i)) }

Init ==
    /\ nodes = << Leaf(0) >>
    /\ w = IndexBits
    /\ flat = << >>
    /\ shapes = << >>
    /\ index = 0
    /\ hit_shapes = << >>
    /\ visited = << >>
    /\ result = NoResult
    /\ pc = "build"

\* The builder splits the leaf at arena position i: the leaf becomes an inner
\* node whose two children are new leaves appended to the arena; the left
\* leaf keeps the shape, the right one holds the next shape.
Split(i, la, ra) ==
    /\ pc = "build"
    /\ i \in LeafPositions(nodes)
    /\ Cardinality(LeafPositions(nodes)) < MaxLeaves
    /\ nodes' = [nodes EXCEPT ![i + 1] = Node(la, Len(nodes), ra, Len(nodes) + 1)]
                 \o << Leaf(At(nodes, i).shape_index),
                       Leaf(Cardinality(LeafPositions(nodes))) >>
    /\ UNCHANGED <<w, flat, shapes, index, hit_shapes, visited, result, pc>>

Flatten ==
    /\ pc = "build"
    /\ flat' = flatten(nodes, w)
    /\ pc' = "flat"
    /\ UNCHANGED <<nodes, w, shapes, index, hit_shapes, visited, result>>

ShapeSeqs == UNION { [1 .. n -> BOOLEAN] : n \in 0 .. MaxShapes }

TraverseBegin(ss) ==
    /\ pc \in {"build", "flat"}
    /\ shapes' = ss
    /\ hit_shapes' = << >>
    /\ index' = 0
    /\ visited' = << >>
    /\ pc' = "loop"
    /\ UNCHANGED <<nodes, w, flat, result>>

InLoop ==
    /\ pc = "loop"
    /\ index < Len(flat)
    /\ Len(visited) <= Len(flat)

LoopLeaf_always_push ==
    /\ InLoop
    /\ LET node == At(flat, index) IN
       /\ node.entry_index = u32_max_value(w)
       /\ node.shape_index < Len(shapes)
       /\ hit_shapes' = Append(hit_shapes, node.shape_index)
       /\ index' = node.exit_index
    /\ visited' = Append(visited, index)
    /\ UNCHANGED <<nodes, w, flat, shapes, result, pc>>

LoopLeaf ==
    /\ InLoop
    /\ LET node == At(flat, index) IN
       /\ node.entry_index = u32_max_value(w)
       /\ node.shape_index < Len(shapes)
       /\ hit_shapes' = IF intersects_aabb(At(shapes, node.shape_index))
                        THEN Append(hit_shapes, node.shape_index)
                        ELSE hit_shapes
       /\ index' = node.exit_index
    /\ visited' = Append(visited, index)
    /\ UNCHANGED <<nodes, w, flat, shapes, result, pc>>

LoopLeafFault_skips ==
    /\ InLoop
    /\ LET node == At(flat, index) IN
       /\ node.entry_index = u32_max_value(w)
       /\ ~ (node.shape_index < Len(shapes))
       /\ index' = node.exit_index
    /\ visited' = Append(visited, index)
    /\ UNCHANGED <<nodes, w, flat, shapes, hit_shapes, result, pc>>

LoopLeafFault_partial ==
    /\ InLoop
    /\ LET node == At(flat, index) IN
       /\ node.entry_index = u32_max_value(w)
       /\ ~ (node.shape_index < Len(shapes))
    /\ visited' = Append(visited, index)
    /\ result' = Returned(hit_shapes)
    /\ pc' = "done"
    /\ UNCHANGED <<nodes, w, flat, shapes, index, hit_shapes>>

LoopLeafFault ==
    /\ InLoop
    /\ LET node == At(flat, index) IN
       /\ node.entry_index = u32_max_value(w)
       /\ ~ (node.shape_index < Len(shapes))
    /\ visited' = Append(visited, index)
    /\ pc' = "panic"
    /\ UNCHANGED <<nodes, w, flat, shapes, index, hit_shapes, result>>

LoopDescend ==
    /\ InLoop
    /\ LET node == At(flat, index) IN
       /\ node.entry_index # u32_max_value(w)
       /\ intersects_aabb(node.aabb)
       /\ index' = node.entry_index
    /\ visited' = Append(visited, index)
    /\ UNCHANGED <<nodes, w, flat, shapes, hit_shapes, result, pc>>

LoopPrune_descends ==
    /\ InLoop
    /\ LET node == At(flat, index) IN
       /\ node.entry_index # u32_max_value(w)
       /\ ~ intersects_aabb(node.aabb)
       /\ index' = node.entry_index
    /\ visited' = Append(visited, index)
    /\ UNCHANGED <<nodes, w, flat, shapes, hit_shapes, result, pc>>

LoopPrune ==
    /\ InLoop
    /\ LET node == At(flat, index) IN
       /\ node.entry_index # u32_max_value(w)
       /\ ~ intersects_aabb(node.aabb)
       /\ index' = node.exit_index
    /\ visited' = Append(visited, index)
    /\ UNCHANGED <<nodes, w, flat, shapes, hit_shapes, result, pc>>

Return ==
    /\ pc = "loop"
    /\ ~ (index < Len(flat))
    /\ result' = Returned(hit_shapes)
    /\ pc' = "done"
    /\ UNCHANGED <<nodes, w, flat, shapes, index, hit_shapes, visited>>

Next ==
    \/ \E i \in 0 .. Len(nodes) - 1, la \in AABBs, ra \in AABBs : Split(i, la, ra)
    \/ Flatten
    \/ \E ss \in ShapeSeqs : TraverseBegin(ss)
    \/ LoopLeaf
    \/ LoopLeafFault
    \/ LoopDescend
    \/ LoopPrune
    \/ Return

Spec == Init /\ [][Next]_vars

InitW ==
    /\ nodes = << Leaf(0) >>
    /\ w \in NarrowBits .. NarrowBits + 1
    /\ flat = << >>
    /\ shapes = << >>
    /\ index = 0
    /\ hit_shapes = << >>
    /\ visited = << >>
    /\ result = NoResult
    /\ pc = "build"

SpecW == InitW /\ [][Next]_vars

\* ------------------------------------------------- vocabulary of the claims
\* The arena positions of the subtree rooted at i, in preorder.
RECURSIVE Preorder(_, _)
Preorder(ns, i) ==
    IF IsLeaf(At(ns, i)) THEN << i >>
    ELSE << i >> \o Preorder(ns, At(ns, i).child_l_index)
                 \o Preorder(ns, At(ns, i).child_r_index)

\* The source node emitted at flat position p.
SourceIndex(p) == At(Preorder(nodes, 0), p)

SourceAt(p) == At(nodes, SourceIndex(p))

SubtreeSize(ns, i) == Len(Preorder(ns, i))

Parent(ns, i) ==
    CHOOSE j \in 0 .. Len(ns) - 1 :
        /\ ~ IsLeaf(At(ns, j))
        /\ i \in {At(ns, j).child_l_index, At(ns, j).child_r_index}

RECURSIVE Ancestors(_, _)
Ancestors(ns, i) ==
    IF i = 0 THEN {} ELSE {Parent(ns, i)} \cup Ancestors(ns, Parent(ns, i))

\* The bounding region of the node at arena position i: the union of the
\* children's regions for the root, the region its parent holds for it otherwise.
RegionOf(ns, i) ==
    IF i = 0 THEN (IF IsLeaf(At(ns, 0)) THEN FALSE
                   ELSE At(ns, 0).child_l_aabb \/ At(ns, 0).child_r_aabb)
    ELSE LET pa == At(ns, Parent(ns, i)) IN
         IF pa.child_l_index = i THEN pa.child_l_aabb ELSE pa.child_r_aabb

\* Recursive descent over the source tree: prune on a missed region, left
\* before right, report a leaf's shape iff the ray hits the shape's own box.
RECURSIVE Descent(_, _, _)
Descent(ns, i, ss) ==
    LET n == At(ns, i) IN
    IF IsLeaf(n)
    THEN (IF At(ss, n.shape_index) THEN << n.shape_index >> ELSE << >>)
    ELSE IF ~ RegionOf(ns, i) THEN << >>
         ELSE Descent(ns, n.child_l_index, ss) \o Descent(ns, n.child_r_index, ss)

Positions == 0 .. Len(flat) - 1

Flattened == Len(flat) > 0

IsFlatLeaf(p) == At(flat, p).entry_index = u32_max_value(w)

ShapesValid == \A i \in LeafPositions(nodes) : At(nodes, i).shape_index < Len(shapes)

VisitedSet == { visited[k] : k \in 1 .. Len(visited) }

AncestorsHit(p) == \A a \in Ancestors(nodes, SourceIndex(p)) : RegionOf(nodes, a)

InvalidLeafAt(p) ==
    /\ p \in Positions
    /\ IsFlatLeaf(p)
    /\ ~ (At(flat, p).shape_index < Len(shapes))

\* ------------------------------------------------------------------ claims

\* C1: for a flattened non-empty tree and a shape sequence in which every leaf
\* shape index is valid, traverse returns exactly the sequence (same elements,
\* same order) of the pruning, left-before-right recursive descent over the
\* source tree.
C1_TraverseIsRecursiveDescent ==
    (pc = "done" /\ Flattened /\ ShapesValid)
        => result = Returned(Descent(nodes, 0, shapes))

\* a walk that pruned a subtree and still reported a shape
C1_Witness ==
    /\ pc = "done" /\ Flattened /\ ShapesValid
    /\ Len(visited) < Len(flat)
    /\ Len(result.value) >= 1

\* C2: over a flattened array the cursor strictly increases on every
\* iteration, so every position is visited at most once, every visited
\* position is inside the array, and the loop has ended only with the cursor
\* not below the array length.
C2_CursorStrictlyIncreases ==
    /\ \A k \in 1 .. Len(visited) - 1 : visited[k] < visited[k + 1]
    /\ \A k \in 1 .. Len(visited) : visited[k] < Len(flat)
    /\ Len(visited) <= Len(flat)
    /\ (pc = "loop" /\ visited # << >>) => index > visited[Len(visited)]
    /\ pc = "done" => ~ (index < Len(flat))

\* a finished walk that jumped over positions by an exit index
C2_Witness ==
    /\ pc = "done"
    /\ \E k \in 1 .. Len(visited) - 1 : visited[k + 1] > visited[k] + 1

\* C3: in flatten(T) every exit_index is strictly greater than its own
\* position and at most the array length, and the last record's exit_index
\* is the array length.
C3_ExitIndexForward ==
    Flattened =>
        /\ \A p \in Positions :
              /\ At(flat, p).exit_index > p
              /\ At(flat, p).exit_index <= Len(flat)
        /\ At(flat, Len(flat) - 1).exit_index = Len(flat)

\* a record whose exit index skips a whole subtree of three records
C3_Witness ==
    /\ pc = "flat"
    /\ \E p \in Positions : ~ IsFlatLeaf(p) /\ At(flat, p).exit_index = p + 3
                            /\ At(flat, p).exit_index < Len(flat)

\* C4 as stated: for every internal record the range [entry_index, exit_index)
\* is as long as the source subtree rooted at that node has nodes.
C4_RangeIsSubtreeSize ==
    Flattened =>
        \A p \in Positions :
            ~ IsLeaf(SourceAt(p)) =>
                At(flat, p).exit_index - At(flat, p).entry_index
                    = SubtreeSize(nodes, SourceIndex(p))

\* C4 amended: for every internal record the range [entry_index, exit_index)
\* holds the node's descendants only, size(left) + size(right) records, one
\* fewer than the subtree has nodes; the subtree is the range
\* [own position, exit_index).
C4_RangeIsDescendants ==
    Flattened =>
        \A p \in Positions :
            ~ IsLeaf(SourceAt(p)) =>
                /\ At(flat, p).exit_index - At(flat, p).entry_index
                     = SubtreeSize(nodes, SourceAt(p).child_l_index)
                       + SubtreeSize(nodes, SourceAt(p).child_r_index)
                /\ At(flat, p).exit_index - p = SubtreeSize(nodes, SourceIndex(p))

\* an internal record that is not the root, in a flattened tree
C4_Witness ==
    /\ pc = "flat"
    /\ \E p \in Positions : p > 0 /\ ~ IsLeaf(SourceAt(p))

\* C5: entry_index is the sentinel exactly at the records of source leaves,
\* and is own position + 1 at the records of internal nodes.
C5_EntryIndex ==
    Flattened =>
        \A p \in Positions :
            /\ IsFlatLeaf(p) <=> IsLeaf(SourceAt(p))
            /\ ~ IsLeaf(SourceAt(p)) => At(flat, p).entry_index = p + 1

\* a flattened tree with an internal record behind the root and a leaf record
\* behind that
C5_Witness ==
    /\ pc = "flat"
    /\ Len(flat) = 5
    /\ At(flat, 1).entry_index = 2
    /\ IsFlatLeaf(4)

\* C6: flatten(T) is the preorder listing of T: as many records as the tree
\* has nodes, the root first, and the k-th record is a leaf carrying shape
\* index s exactly when the k-th node in preorder is a leaf with shape index
\* s; an internal record carries the region of its node.
C6_PreorderListing ==
    Flattened =>
        /\ Len(flat) = Len(nodes)
        /\ Len(flat) = Len(Preorder(nodes, 0))
        /\ \A p \in Positions :
              /\ IsFlatLeaf(p) <=> IsLeaf(SourceAt(p))
              /\ IsLeaf(SourceAt(p))
                    => At(flat, p).shape_index = SourceAt(p).shape_index
              /\ ~ IsLeaf(SourceAt(p))
                    => At(flat, p).aabb = RegionOf(nodes, SourceIndex(p))

\* a flattened five-node tree whose arena is not stored in preorder and whose
\* left subtree is internal
C6_Witness ==
    /\ pc = "flat"
    /\ Len(flat) = 5
    /\ ~ IsFlatLeaf(1)
    /\ Preorder(nodes, 0) # << 0, 1, 2, 3, 4 >>

\* C7 as stated: a finished traverse call on an empty flat array, or with a
\* shape sequence without entries, has returned the empty sequence (with no
\* iteration when the array is empty).
C7_EmptyInputsReturnEmpty ==
    (pc \in {"done", "panic"} /\ (Len(flat) = 0 \/ Len(shapes) = 0))
        => /\ pc = "done"
           /\ result = Returned(<< >>)
           /\ Len(flat) = 0 => visited = << >>

\* C7 amended: on an empty flat array traverse returns the empty sequence
\* with no iteration; with a shape sequence without entries it returns the
\* empty sequence when its walk reaches no leaf, and ends in an indexing fault
\* at the first leaf it reaches otherwise.
C7_EmptyInputs ==
    /\ (pc \in {"done", "panic"} /\ Len(flat) = 0)
          => (pc = "done" /\ result = Returned(<< >>) /\ visited = << >>)
    /\ (pc \in {"done", "panic"} /\ Len(shapes) = 0)
          => /\ pc = "done" => result = Returned(<< >>)
             /\ pc = "done" <=> (\A p \in VisitedSet : ~ IsFlatLeaf(p))
             /\ pc = "panic" => (IsFlatLeaf(index) /\ result = NoResult)
    /\ (pc = "loop" /\ Len(shapes) = 0) => \A p \in VisitedSet : ~ IsFlatLeaf(p)

\* a call without shapes on a flattened tree whose root region the ray misses
C7_Witness ==
    /\ pc = "done"
    /\ Len(shapes) = 0
    /\ Len(flat) >= 3
    /\ visited = << 0 >>

\* C8: traverse ends in an indexing fault exactly when its walk reaches a
\* leaf whose shape_index is no position of shapes: the fault is raised at
\* that leaf's iteration and nothing is returned; a walk that reaches no such
\* leaf (an out-of-range leaf in a pruned subtree included) completes.
C8_FaultOnlyAtInvalidLeaf ==
    /\ pc = "panic" =>
          /\ InvalidLeafAt(index)
          /\ visited[Len(visited)] = index
          /\ result = NoResult
    /\ pc \in {"loop", "done"} => \A p \in VisitedSet : ~ InvalidLeafAt(p)
    /\ pc = "done" => result.returned
    /\ (pc \in {"done", "panic"} /\ Flattened) =>
          (pc = "panic" <=> \E p \in Positions : InvalidLeafAt(p) /\ AncestorsHit(p))

\* a fault after a shape had already been collected
C8_Witness ==
    /\ pc = "panic"
    /\ hit_shapes # << >>

\* C9: over flatten(T) a position is visited only if every proper ancestor of
\* its source node has its region hit by the ray, and a completed walk has
\* visited every such position; a ray that misses the root region gives one
\* iteration and an empty result, and a single-leaf tree gives one iteration.
C9_VisitedIffAncestorsHit ==
    Flattened =>
        /\ \A p \in VisitedSet : AncestorsHit(p)
        /\ pc = "done" => \A p \in Positions : AncestorsHit(p) => p \in VisitedSet
        /\ (pc = "done" /\ ~ IsLeaf(At(nodes, 0)) /\ ~ RegionOf(nodes, 0))
              => (visited = << 0 >> /\ result = Returned(<< >>))
        /\ (pc \in {"done", "panic"} /\ Len(flat) = 1) => visited = << 0 >>

\* a completed walk that descended from the root, pruned the internal left
\* child with its two leaves, and went on to the right leaf
C9_Witness ==
    /\ pc = "done"
    /\ Len(flat) = 5
    /\ visited = << 0, 1, 4 >>

\* C10: with indices stored in w bits, for a tree of at most 2^w - 1 nodes
\* whose leaf shape indices are below 2^w, every stored exit_index, every
\* stored entry_index of an internal node and every stored shape_index of a
\* leaf is the value computed before the narrowing cast, and no internal node
\* is stored with the sentinel as entry_index.
C10_CastsLoseNothing ==
    (/\ Flattened
     /\ Len(nodes) <= Pow2(w) - 1
     /\ \A i \in LeafPositions(nodes) : At(nodes, i).shape_index < Pow2(w))
        => LET wide == flatten(nodes, IndexBits) IN
           \A p \in Positions :
               /\ At(flat, p).exit_index = At(wide, p).exit_index
               /\ IsLeaf(SourceAt(p))
                     => At(flat, p).shape_index = At(wide, p).shape_index
               /\ ~ IsLeaf(SourceAt(p))
                     => /\ At(flat, p).entry_index = At(wide, p).entry_index
                        /\ At(flat, p).entry_index # Pow2(w) - 1

\* a flattened tree with exactly 2^w - 1 nodes: the last exit_index is the
\* largest value the width holds
C10_Witness ==
    /\ pc = "flat"
    /\ w = NarrowBits
    /\ Len(nodes) = Pow2(w) - 1
    /\ At(flat, Len(flat) - 1).exit_index = Pow2(w) - 1

====
